---- MODULE Spec2Model ----
(***************************************************************************)
(* Model of nisystemlink.clients.testmonitor.utilities:                     *)
(*   _client_utilities.py      __query_steps_batched (the paginator)        *)
(*   _dataframe_utilities.py   get_steps_dataframe, __restructure_steps,    *)
(*                             __group_columns, __normalize_steps           *)
(*                                                                         *)
(* Python strings are sequences of one-character strings, so that the      *)
(* substring test `x in column` and the "." path join are computed and not *)
(* assumed.  Python values are records [t |-> type tag, v |-> payload];    *)
(* a dict is the sequence of its <<key, value>> items in insertion order.  *)
(***************************************************************************)
EXTENDS Integers, Sequences, FiniteSets, TLC

-----------------------------------------------------------------------------
(* Bounds of the model *)

\* most query_steps calls one run of the paginator is followed through
MaxCalls == 3
\* most steps in the record set handed to __normalize_steps
MaxSteps == 2
\* most columns in the list handed to __group_columns
MaxCols == 3

-----------------------------------------------------------------------------
(* Strings *)

\* Python: sub in s
Contains(sub, s) ==
    \E i \in 0..(Len(s) - Len(sub)) : SubSeq(s, i + 1, i + Len(sub)) = sub

\* Python: str.lower(), on the letters the enum values use
lower(s) ==
    LET lc == [c \in {"A", "D", "E", "I", "N", "O", "P", "R", "S", "T", "U"} |->
                 CASE c = "A" -> "a" [] c = "D" -> "d" [] c = "E" -> "e"
                   [] c = "I" -> "i" [] c = "N" -> "n" [] c = "O" -> "o"
                   [] c = "P" -> "p" [] c = "R" -> "r" [] c = "S" -> "s"
                   [] c = "T" -> "t" [] c = "U" -> "u"]
    IN  [i \in DOMAIN s |-> IF s[i] \in DOMAIN lc THEN lc[s[i]] ELSE s[i]]

\* StepProjection members used by the utilities (str-valued enum)
StepProjection_INPUTS == <<"I", "N", "P", "U", "T", "S">>
StepProjection_OUTPUTS == <<"O", "U", "T", "P", "U", "T", "S">>
StepProjection_DATA == <<"D", "A", "T", "A">>
StepProjection_PROPERTIES == <<"P", "R", "O", "P", "E", "R", "T", "I", "E", "S">>

s_general == <<"g", "e", "n", "e", "r", "a", "l">>
s_data_model == <<"d", "a", "t", "a", "_", "m", "o", "d", "e", "l">>
s_name == <<"n", "a", "m", "e">>
s_value == <<"v", "a", "l", "u", "e">>
s_step_id == <<"s", "t", "e", "p", "_", "i", "d">>
s_text == <<"t", "e", "x", "t">>
s_env == <<"e", "n", "v">>
sep == <<".">>

-----------------------------------------------------------------------------
(* Python values *)

PyNone == [t |-> "none", v |-> <<>>]
NaN == [t |-> "nan", v |-> <<>>]
Unset == [t |-> "unset", v |-> <<>>]
PyStr(s) == [t |-> "str", v |-> s]
PyList(items) == [t |-> "list", v |-> items]
PyDict(items) == [t |-> "dict", v |-> items]

\* Python truthiness: None, "", [] and {} are falsy
truthy(val) == val.t # "none" /\ val.v # <<>>

\* key in d
has_key(d, k) == \E i \in DOMAIN d : d[i][1] = k

\* d[k]
dict_get(d, k) == d[CHOOSE i \in DOMAIN d : d[i][1] = k][2]

\* d[k] = val: an existing key keeps its position, a new key goes last
dict_set(d, k, val) ==
    IF has_key(d, k)
    THEN [i \in DOMAIN d |-> IF d[i][1] = k THEN <<k, val>> ELSE d[i]]
    ELSE Append(d, <<k, val>>)

\* list(d.keys())
dict_keys(d) == [i \in DOMAIN d |-> d[i][1]]

-----------------------------------------------------------------------------
(* __restructure_steps *)

\* step.dict(exclude_unset=True): the fields the server set, in field order
step_dict(step) == SelectSeq(step, LAMBDA item : item[2] # Unset)

\* variant of process_io_from: a name already seen keeps its first value
RECURSIVE process_io_from_first_wins(_, _)
process_io_from_first_wins(acc, io_list) ==
    IF io_list = <<>>
    THEN acc
    ELSE LET io == Head(io_list).v
         IN  process_io_from_first_wins(
                 IF has_key(acc, dict_get(io, s_name).v) THEN acc
                 ELSE dict_set(acc, dict_get(io, s_name).v, dict_get(io, s_value)),
                 Tail(io_list))

\* {io["name"]: io["value"] for io in io_list}
RECURSIVE process_io_from(_, _)
process_io_from(acc, io_list) ==
    IF io_list = <<>>
    THEN acc
    ELSE LET io == Head(io_list).v
         IN  process_io_from(
                 dict_set(acc, dict_get(io, s_name).v, dict_get(io, s_value)),
                 Tail(io_list))

process_io(io_list) == PyDict(process_io_from(<<>>, io_list))

input_key == lower(StepProjection_INPUTS)
output_key == lower(StepProjection_OUTPUTS)

\* one pass of the loop body for `key`
restructure_field(step, key) ==
    IF has_key(step, key) /\ truthy(dict_get(step, key))
    THEN dict_set(step, key, process_io(dict_get(step, key).v))
    ELSE step

restructure_step(step) ==
    restructure_field(restructure_field(step, input_key), output_key)

restructure_steps(steps) == [i \in DOMAIN steps |-> restructure_step(steps[i])]

-----------------------------------------------------------------------------
(* __group_columns *)

GroupKeys ==
    {s_general, StepProjection_INPUTS, StepProjection_OUTPUTS,
     StepProjection_DATA, StepProjection_PROPERTIES}

\* the if/elif chain of the loop body: the key of the list the column joins
column_group(column) ==
    IF Contains(lower(StepProjection_DATA), column) /\ ~(column = s_data_model)
    THEN StepProjection_DATA
    ELSE IF Contains(lower(StepProjection_INPUTS), column)
    THEN StepProjection_INPUTS
    ELSE IF Contains(lower(StepProjection_OUTPUTS), column)
    THEN StepProjection_OUTPUTS
    ELSE IF Contains(lower(StepProjection_PROPERTIES), column)
    THEN StepProjection_PROPERTIES
    ELSE s_general

\* variant of append_column: insert(0, column) instead of append
append_column_in_front(grouped_columns, column) ==
    [grouped_columns EXCEPT ![column_group(column)] = <<column>> \o @]

\* grouped_columns[...].append(column)
append_column(grouped_columns, column) ==
    [grouped_columns EXCEPT ![column_group(column)] = Append(@, column)]

RECURSIVE group_loop(_, _)
group_loop(grouped_columns, df_columns) ==
    IF df_columns = <<>>
    THEN grouped_columns
    ELSE group_loop(append_column(grouped_columns, Head(df_columns)),
                    Tail(df_columns))

\* the return expression
concat_groups(grouped_columns) ==
    grouped_columns[s_general]
    \o grouped_columns[StepProjection_INPUTS]
    \o grouped_columns[StepProjection_OUTPUTS]
    \o grouped_columns[StepProjection_DATA]
    \o grouped_columns[StepProjection_PROPERTIES]

group_columns(df_columns) ==
    concat_groups(group_loop([k \in GroupKeys |-> <<>>], df_columns))

-----------------------------------------------------------------------------
(* __normalize_steps, with the pandas calls it makes *)

\* pandas.json_normalize flattening of one record (sep = "."): a nested dict
\* contributes one entry per leaf, keyed by the joined path
RECURSIVE normalise_json(_, _, _)
RECURSIVE normalise_items(_, _, _)
normalise_json(data, key_string, normalized_dict) ==
    IF data.t = "dict"
    THEN normalise_items(data.v, key_string, normalized_dict)
    ELSE dict_set(normalized_dict, key_string, data)

normalise_items(items, key_string, normalized_dict) ==
    IF items = <<>>
    THEN normalized_dict
    ELSE LET key == Head(items)[1]
             new_key == IF key_string = <<>> THEN key
                        ELSE key_string \o sep \o key
         IN  normalise_items(Tail(items), key_string,
                 normalise_json(Head(items)[2], new_key, normalized_dict))

\* top-level scalars first, then the flattened nested dicts
normalise_json_ordered(data) ==
    LET top_dict == SelectSeq(data, LAMBDA item : item[2].t # "dict")
        nested == SelectSeq(data, LAMBDA item : item[2].t = "dict")
    IN  normalise_items(nested, <<>>, top_dict)

\* columns of DataFrame(list of dicts): the keys in first-seen order
RECURSIVE union_keys(_, _)
union_keys(columns, keys) ==
    IF keys = <<>>
    THEN columns
    ELSE union_keys(
             IF \E j \in DOMAIN columns : columns[j] = Head(keys)
             THEN columns ELSE Append(columns, Head(keys)),
             Tail(keys))

RECURSIVE frame_columns(_, _)
frame_columns(columns, rows) ==
    IF rows = <<>>
    THEN columns
    ELSE frame_columns(union_keys(columns, dict_keys(Head(rows))), Tail(rows))

\* a missing key is NaN in that row
cell(row, column) == IF has_key(row, column) THEN dict_get(row, column) ELSE NaN

\* variant of DataFrame: the rows come out in reverse order
DataFrame_reversed(rows) ==
    LET columns == frame_columns(<<>>, rows)
    IN  [columns |-> columns,
         data |-> [i \in DOMAIN rows |->
                     [j \in DOMAIN columns |->
                        cell(rows[Len(rows) + 1 - i], columns[j])]]]

DataFrame(rows) ==
    LET columns == frame_columns(<<>>, rows)
    IN  [columns |-> columns,
         data |-> [i \in DOMAIN rows |->
                     [j \in DOMAIN columns |-> cell(rows[i], columns[j])]]]

\* pd.json_normalize(data, sep="."): an empty list gives DataFrame()
json_normalize(data) ==
    IF data = <<>>
    THEN [columns |-> <<>>, data |-> <<>>]
    ELSE DataFrame([i \in DOMAIN data |-> normalise_json_ordered(data[i])])

\* df.reindex(columns=...): a column the frame lacks is all NaN
reindex(df, columns) ==
    [columns |-> columns,
     data |-> [i \in DOMAIN df.data |->
                 [j \in DOMAIN columns |->
                    IF \E k \in DOMAIN df.columns : df.columns[k] = columns[j]
                    THEN df.data[i][CHOOSE k \in DOMAIN df.columns :
                                        df.columns[k] = columns[j]]
                    ELSE NaN]]]

isna(val) == val.t \in {"none", "nan"}

\* variant of dropna: how="any"
dropna_any(df) ==
    LET kept == SelectSeq([j \in DOMAIN df.columns |-> j],
                    LAMBDA j : \A i \in DOMAIN df.data : ~isna(df.data[i][j]))
    IN  [columns |-> [n \in DOMAIN kept |-> df.columns[kept[n]]],
         data |-> [i \in DOMAIN df.data |->
                     [n \in DOMAIN kept |-> df.data[i][kept[n]]]]]

\* df.dropna(axis="columns", how="all")
dropna(df) ==
    LET kept == SelectSeq([j \in DOMAIN df.columns |-> j],
                    LAMBDA j : \E i \in DOMAIN df.data : ~isna(df.data[i][j]))
    IN  [columns |-> [n \in DOMAIN kept |-> df.columns[kept[n]]],
         data |-> [i \in DOMAIN df.data |->
                     [n \in DOMAIN kept |-> df.data[i][kept[n]]]]]

steps_dict_representation(steps) == [i \in DOMAIN steps |-> step_dict(steps[i])]

normalize_steps(steps) ==
    LET restructured_steps == restructure_steps(steps_dict_representation(steps))
        normalized_dataframe == json_normalize(restructured_steps)
        grouped_columns == group_columns(normalized_dataframe.columns)
    IN  dropna(reindex(normalized_dataframe, grouped_columns))

-----------------------------------------------------------------------------
(* Inputs the model draws from *)

s_data == lower(StepProjection_DATA)
s_properties == lower(StepProjection_PROPERTIES)

\* a NamedValue of Step.inputs / Step.outputs, as .dict() renders it
NamedValue(name, value) == PyDict(<< <<s_name, PyStr(name)>>, <<s_value, value>> >>)

\* a Step: every model field in declaration order, Unset where the server sent none
Step(inputs, outputs, data_model, data, properties) ==
    << <<s_step_id, PyStr(<<"s">>)>>, <<input_key, inputs>>, <<output_key, outputs>>,
       <<s_data_model, data_model>>, <<s_data, data>>, <<s_properties, properties>> >>

InputChoices ==
    {Unset, PyNone, PyList(<<>>),
     PyList(<<NamedValue(<<"v">>, PyStr(<<"5">>)), NamedValue(<<"v">>, PyStr(<<"7">>))>>),
     PyList(<<NamedValue(<<"w">>, PyStr(<<"5">>)), NamedValue(<<"v">>, PyNone),
              NamedValue(<<"w">>, PyStr(<<"7">>))>>)}

OutputChoices == {Unset, PyList(<<NamedValue(<<"i">>, PyStr(<<"1">>))>>)}

\* <<data_model, data, properties>>
OtherChoices ==
    {<<Unset, Unset, Unset>>,
     <<PyStr(<<"m">>), PyDict(<< <<s_text, PyStr(<<"t">>)>> >>),
       PyDict(<< <<s_env, PyStr(<<"e">>)>> >>)>>,
     <<Unset, PyNone, PyDict(<<>>)>>}

StepUniverse ==
    {Step(i, o, r[1], r[2], r[3]) : i \in InputChoices, o \in OutputChoices,
                                    r \in OtherChoices}

\* the steps the modelled server holds
ServerSteps ==
    {Step(PyList(<<NamedValue(<<"v">>, PyStr(<<"5">>))>>), Unset, Unset, Unset, Unset),
     Step(Unset, Unset, Unset, PyNone, Unset)}

SeqsUpTo(S, n) == UNION {[1..k -> S] : k \in 0..n}

\* a page of at most `take` steps: a step occurs once in a page
Pages(take) ==
    {page \in SeqsUpTo(ServerSteps, take) :
        \A i, j \in DOMAIN page : page[i] = page[j] => i = j}

\* continuation tokens a response can carry: none, empty, or a cursor
Tokens == {PyNone, PyStr(<<>>), PyStr(<<"a">>), PyStr(<<"b">>)}

Errors == {"ApiException", "ConnectionError"}

-----------------------------------------------------------------------------
(* State *)

VARIABLES
    pc,                \* position in get_steps_dataframe / __query_steps_batched
    steps_query,       \* the QueryStepsRequest object
    response,          \* the last response
    all_steps,         \* the accumulator
    requests,          \* the server's log: each request as it was received
    served,            \* the server's log: what it answered to each request
    batched_result,    \* how __query_steps_batched ended
    dataframe_result,  \* how get_steps_dataframe ended
    n_pc,              \* position in __normalize_steps
    n_steps,           \* its argument
    n_dicts,           \* steps_dict_representation (restructured in place)
    n_frame,           \* normalized_dataframe
    g_pc,              \* position in __group_columns
    g_columns,         \* its argument
    g_index,           \* columns the loop has handled
    g_grouped,         \* grouped_columns
    g_result           \* its return value

pag_vars ==
    <<pc, steps_query, response, all_steps, requests, served, batched_result,
      dataframe_result>>
norm_vars == <<n_pc, n_steps, n_dicts, n_frame>>
group_vars == <<g_pc, g_columns, g_index, g_grouped, g_result>>
vars == <<pag_vars, norm_vars, group_vars>>

\* how a call ended: `value` is what it returned, `error` what it raised
\* (`none` fills the value of a call that returned nothing)
Pending(none) == [kind |-> "pending", value |-> none, error |-> ""]
Returned(value) == [kind |-> "returned", value |-> value, error |-> ""]
Raised(error, none) == [kind |-> "raised", value |-> none, error |-> error]

NoResponse == [steps |-> <<>>, continuation_token |-> PyNone]
EmptyFrame == [columns |-> <<>>, data |-> <<>>]

PagIdle ==
    /\ pc = "idle"
    /\ steps_query = [filter |-> "", result_filter |-> "", order_by |-> "",
                      projection |-> "", take |-> 0, continuation_token |-> PyNone]
    /\ response = NoResponse
    /\ all_steps = <<>>
    /\ requests = <<>>
    /\ served = <<>>
    /\ batched_result = Pending(<<>>)
    /\ dataframe_result = Pending(EmptyFrame)

NormIdle ==
    /\ n_pc = "idle"
    /\ n_steps = <<>>
    /\ n_dicts = <<>>
    /\ n_frame = EmptyFrame

GroupIdle ==
    /\ g_pc = "idle"
    /\ g_columns = <<>>
    /\ g_index = 0
    /\ g_grouped = [k \in GroupKeys |-> <<>>]
    /\ g_result = <<>>

-----------------------------------------------------------------------------
(* get_steps_dataframe and __query_steps_batched *)

\* <<step_filter, result_filter, column_projection, take>> of the calls followed
CallArguments ==
    {<<"f1", "r1", "None", 1>>, <<"f2", "r2", "NAME,INPUTS", 2>>}

\* the request object as constructed: continuation_token defaults to None
QueryStepsRequest(filter, result_filter, order_by, projection, take) ==
    [filter |-> filter, result_filter |-> result_filter, order_by |-> order_by,
     projection |-> projection, take |-> take, continuation_token |-> PyNone]

Init ==
    /\ pc = "query"
    /\ \E args \in CallArguments :
         steps_query = QueryStepsRequest(args[1], args[2], "UPDATED_AT", args[3], args[4])
    /\ response = NoResponse
    /\ all_steps = <<>>
    /\ requests = <<>>
    /\ served = <<>>
    /\ batched_result = Pending(<<>>)
    /\ dataframe_result = Pending(EmptyFrame)
    /\ NormIdle
    /\ GroupIdle

\* variant of QueryReturns: all_steps = response.steps instead of extend
QueryReturns_assign ==
    /\ pc = "query"
    /\ Len(requests) < MaxCalls
    /\ \E page \in Pages(steps_query.take), token \in Tokens :
         /\ response' = [steps |-> page, continuation_token |-> token]
         /\ served' = Append(served, [kind |-> "page", steps |-> page,
                                      continuation_token |-> token])
         /\ all_steps' = page
    /\ requests' = Append(requests, steps_query)
    /\ pc' = "loop"
    /\ UNCHANGED <<steps_query, batched_result, dataframe_result>>
    /\ UNCHANGED <<norm_vars, group_vars>>

\* variant of QueryReturns: the new page is put in front of the accumulator
QueryReturns_prepend ==
    /\ pc = "query"
    /\ Len(requests) < MaxCalls
    /\ \E page \in Pages(steps_query.take), token \in Tokens :
         /\ response' = [steps |-> page, continuation_token |-> token]
         /\ served' = Append(served, [kind |-> "page", steps |-> page,
                                      continuation_token |-> token])
         /\ all_steps' = page \o all_steps
    /\ requests' = Append(requests, steps_query)
    /\ pc' = "loop"
    /\ UNCHANGED <<steps_query, batched_result, dataframe_result>>
    /\ UNCHANGED <<norm_vars, group_vars>>

\* response = test_monitor_client.query_steps(steps_query)
\* all_steps.extend(response.steps)
QueryReturns ==
    /\ pc = "query"
    /\ Len(requests) < MaxCalls
    /\ \E page \in Pages(steps_query.take), token \in Tokens :
         /\ response' = [steps |-> page, continuation_token |-> token]
         /\ served' = Append(served, [kind |-> "page", steps |-> page,
                                      continuation_token |-> token])
         /\ all_steps' = all_steps \o page
    /\ requests' = Append(requests, steps_query)
    /\ pc' = "loop"
    /\ UNCHANGED <<steps_query, batched_result, dataframe_result>>
    /\ UNCHANGED <<norm_vars, group_vars>>

\* variant of QueryRaises: the failure is caught and what was gathered is returned
QueryRaises_swallow ==
    /\ pc = "query"
    /\ Len(requests) < MaxCalls
    /\ \E error \in Errors :
         served' = Append(served, [kind |-> "error", error |-> error])
    /\ batched_result' = Returned(all_steps)
    /\ requests' = Append(requests, steps_query)
    /\ pc' = "normalize"
    /\ UNCHANGED <<steps_query, response, all_steps, dataframe_result>>
    /\ UNCHANGED <<norm_vars, group_vars>>

\* query_steps raises: nothing catches it in either function
QueryRaises ==
    /\ pc = "query"
    /\ Len(requests) < MaxCalls
    /\ \E error \in Errors :
         /\ served' = Append(served, [kind |-> "error", error |-> error])
         /\ batched_result' = Raised(error, <<>>)
         /\ dataframe_result' = Raised(error, EmptyFrame)
    /\ requests' = Append(requests, steps_query)
    /\ pc' = "raised"
    /\ UNCHANGED <<steps_query, response, all_steps>>
    /\ UNCHANGED <<norm_vars, group_vars>>

\* variant of LoopContinue: the token is attached only while the request has none
LoopContinue_first_token ==
    /\ pc = "loop"
    /\ truthy(response.continuation_token)
    /\ steps_query' = [steps_query EXCEPT
                         !.continuation_token =
                             IF @ = PyNone THEN response.continuation_token ELSE @]
    /\ pc' = "query"
    /\ UNCHANGED <<response, all_steps, requests, served, batched_result,
                   dataframe_result>>
    /\ UNCHANGED <<norm_vars, group_vars>>

\* variant of LoopContinue: `is not None` instead of truthiness
LoopContinue_not_none ==
    /\ pc = "loop"
    /\ response.continuation_token # PyNone
    /\ steps_query' = [steps_query EXCEPT
                         !.continuation_token = response.continuation_token]
    /\ pc' = "query"
    /\ UNCHANGED <<response, all_steps, requests, served, batched_result,
                   dataframe_result>>
    /\ UNCHANGED <<norm_vars, group_vars>>

\* while response.continuation_token:
\*     steps_query.continuation_token = response.continuation_token
LoopContinue ==
    /\ pc = "loop"
    /\ truthy(response.continuation_token)
    /\ steps_query' = [steps_query EXCEPT
                         !.continuation_token = response.continuation_token]
    /\ pc' = "query"
    /\ UNCHANGED <<response, all_steps, requests, served, batched_result,
                   dataframe_result>>
    /\ UNCHANGED <<norm_vars, group_vars>>

\* the loop test fails: return all_steps
LoopExit ==
    /\ pc = "loop"
    /\ ~truthy(response.continuation_token)
    /\ batched_result' = Returned(all_steps)
    /\ pc' = "normalize"
    /\ UNCHANGED <<steps_query, response, all_steps, requests, served,
                   dataframe_result>>
    /\ UNCHANGED <<norm_vars, group_vars>>

\* steps_dataframe = __normalize_steps(steps); return steps_dataframe
ReturnDataframe ==
    /\ pc = "normalize"
    /\ dataframe_result' = Returned(normalize_steps(batched_result.value))
    /\ pc' = "done"
    /\ UNCHANGED <<steps_query, response, all_steps, requests, served,
                   batched_result>>
    /\ UNCHANGED <<norm_vars, group_vars>>

Next == QueryReturns \/ QueryRaises \/ LoopContinue \/ LoopExit \/ ReturnDataframe

Spec == Init /\ [][Next]_vars

\* the paginator runs synchronously on the caller's thread: once a response is
\* in hand, the loop test (either branch) is evaluated
FairSpec == Spec /\ WF_vars(LoopContinue \/ LoopExit)

-----------------------------------------------------------------------------
(* __normalize_steps, statement by statement *)

NormInit ==
    /\ PagIdle
    /\ GroupIdle
    /\ n_pc = "dict"
    /\ n_steps \in SeqsUpTo(StepUniverse, MaxSteps)
    /\ n_dicts = <<>>
    /\ n_frame = EmptyFrame

\* steps_dict_representation = [step.dict(exclude_unset=True) for step in steps]
DictRepresentation ==
    /\ n_pc = "dict"
    /\ n_dicts' = steps_dict_representation(n_steps)
    /\ n_pc' = "restructure"
    /\ UNCHANGED <<n_steps, n_frame, pag_vars, group_vars>>

\* restructured_steps = __restructure_steps(steps=steps_dict_representation)
Restructure ==
    /\ n_pc = "restructure"
    /\ n_dicts' = restructure_steps(n_dicts)
    /\ n_pc' = "json_normalize"
    /\ UNCHANGED <<n_steps, n_frame, pag_vars, group_vars>>

\* normalized_dataframe = pd.json_normalize(restructured_steps, sep=".")
JsonNormalize ==
    /\ n_pc = "json_normalize"
    /\ n_frame' = json_normalize(n_dicts)
    /\ n_pc' = "reindex"
    /\ UNCHANGED <<n_steps, n_dicts, pag_vars, group_vars>>

\* grouped_columns = __group_columns(normalized_dataframe.columns)
\* normalized_dataframe = normalized_dataframe.reindex(columns=grouped_columns)
Reindex ==
    /\ n_pc = "reindex"
    /\ n_frame' = reindex(n_frame, group_columns(n_frame.columns))
    /\ n_pc' = "dropna"
    /\ UNCHANGED <<n_steps, n_dicts, pag_vars, group_vars>>

\* normalized_dataframe.dropna(axis="columns", how="all", inplace=True); return
Dropna ==
    /\ n_pc = "dropna"
    /\ n_frame' = dropna(n_frame)
    /\ n_pc' = "done"
    /\ UNCHANGED <<n_steps, n_dicts, pag_vars, group_vars>>

NormNext == DictRepresentation \/ Restructure \/ JsonNormalize \/ Reindex \/ Dropna

SpecNorm == NormInit /\ [][NormNext]_vars

-----------------------------------------------------------------------------
(* __group_columns, iteration by iteration *)

c_id == <<"i", "d">>
c_general_x == <<"g", "e", "n", "e", "r", "a", "l", "_", "x">>
c_inputs_v == <<"i", "n", "p", "u", "t", "s", ".", "v">>
c_outputs_i == <<"o", "u", "t", "p", "u", "t", "s", ".", "i">>
c_data_temp == <<"d", "a", "t", "a", ".", "t", "e", "m", "p">>
c_properties_env == <<"p", "r", "o", "p", "e", "r", "t", "i", "e", "s", ".", "e", "n", "v">>
c_inputs_data == <<"i", "n", "p", "u", "t", "s", ".", "d", "a", "t", "a">>
c_metadata == <<"m", "e", "t", "a", "d", "a", "t", "a">>
c_properties_outputs == <<"p", "r", "o", "p", "e", "r", "t", "i", "e", "s", ".", "o", "u", "t", "p", "u", "t", "s">>

ColumnUniverse ==
    {c_id, c_general_x, s_data_model, c_inputs_v, c_outputs_i, c_data_temp,
     c_properties_env, c_inputs_data, c_metadata, c_properties_outputs}

ExampleColumns ==
    <<c_id, c_inputs_v, c_general_x, c_outputs_i, c_data_temp, c_properties_env,
      s_data_model>>

GroupInit ==
    /\ PagIdle
    /\ NormIdle
    /\ g_pc = "loop"
    /\ g_columns \in SeqsUpTo(ColumnUniverse, MaxCols) \cup {ExampleColumns}
    /\ g_index = 0
    /\ g_grouped = [k \in GroupKeys |-> <<>>]
    /\ g_result = <<>>

\* for column in df_columns: one pass of the body
GroupLoop ==
    /\ g_pc = "loop"
    /\ g_index < Len(g_columns)
    /\ g_grouped' = append_column(g_grouped, g_columns[g_index + 1])
    /\ g_index' = g_index + 1
    /\ UNCHANGED <<g_pc, g_columns, g_result, pag_vars, norm_vars>>

\* the loop is over: return the concatenation
GroupReturn ==
    /\ g_pc = "loop"
    /\ g_index = Len(g_columns)
    /\ g_result' = concat_groups(g_grouped)
    /\ g_pc' = "done"
    /\ UNCHANGED <<g_columns, g_index, g_grouped, pag_vars, norm_vars>>

GroupNext == GroupLoop \/ GroupReturn

SpecGroup == GroupInit /\ [][GroupNext]_vars

-----------------------------------------------------------------------------
(* Properties of the paginator *)

\* the server's answers so far are all pages
AllPages(log) == \A k \in DOMAIN log : log[k].kind = "page"

\* pages P1..Pn, n >= 1: a non-empty token on each but the last, none on the last
CompletePages(log) ==
    /\ Len(log) >= 1
    /\ AllPages(log)
    /\ \A k \in 1..(Len(log) - 1) : truthy(log[k].continuation_token)
    /\ ~truthy(log[Len(log)].continuation_token)

RECURSIVE SumOfPageSizes(_)
SumOfPageSizes(log) ==
    IF log = <<>> THEN 0
    ELSE SumOfPageSizes(SubSeq(log, 1, Len(log) - 1))
         + (IF log[Len(log)].kind = "page" THEN Len(log[Len(log)].steps) ELSE 0)

RECURSIVE ConcatOfPages(_)
ConcatOfPages(log) ==
    IF log = <<>> THEN <<>>
    ELSE ConcatOfPages(SubSeq(log, 1, Len(log) - 1))
         \o (IF log[Len(log)].kind = "page" THEN log[Len(log)].steps ELSE <<>>)

\* C1: when the server has answered with pages P1..Pn, each but the last with a
\* non-empty token, the paginator has issued exactly n calls, issues no more, and
\* returns as many steps as the pages hold together.
C1_PageCount ==
    CompletePages(served) =>
        /\ Len(requests) = Len(served)
        /\ pc \in {"loop", "normalize", "done"}
        /\ pc # "loop" =>
             /\ batched_result.kind = "returned"
             /\ Len(batched_result.value) = SumOfPageSizes(served)

C1_Witness ==
    /\ pc = "done"
    /\ CompletePages(served)
    /\ Len(served) = 3
    /\ Len(served[1].steps) = 2
    /\ Len(served[2].steps) = 0
    /\ Len(served[3].steps) = 1
    /\ Len(batched_result.value) = 3

\* C2: at the loop test, and at the return, the accumulator is the concatenation,
\* in response order, of the step lists of every response received.
C2_Accumulator ==
    /\ all_steps = ConcatOfPages(served)
    /\ batched_result.kind = "returned" => batched_result.value = ConcatOfPages(served)

C2_Witness ==
    /\ pc = "done"
    /\ Len(served) = 2
    /\ Len(served[1].steps) = 1
    /\ Len(served[2].steps) = 2
    /\ served[2].steps[1] # served[1].steps[1]
    /\ batched_result.value = served[1].steps \o served[2].steps

\* C3: the first request has no token and is built from the arguments with
\* order_by UPDATED_AT; request k+1 is the first request with the token of
\* response k; a token is sent twice only if the server returned it twice.
C3_Requests ==
    /\ Len(requests) >= 1 =>
         /\ requests[1].continuation_token = PyNone
         /\ \E a \in CallArguments :
              requests[1] = [filter |-> a[1], result_filter |-> a[2],
                             order_by |-> "UPDATED_AT", projection |-> a[3],
                             take |-> a[4], continuation_token |-> PyNone]
    /\ \A k \in 1..(Len(requests) - 1) :
         /\ served[k].kind = "page"
         /\ requests[k + 1] =
              [requests[1] EXCEPT !.continuation_token = served[k].continuation_token]
    /\ \A i, j \in 2..Len(requests) :
         requests[i].continuation_token = requests[j].continuation_token
           => served[i - 1].continuation_token = served[j - 1].continuation_token

C3_Witness ==
    /\ Len(requests) = 3
    /\ requests[2].continuation_token = PyStr(<<"a">>)
    /\ requests[3].continuation_token = PyStr(<<"b">>)
    /\ requests[3].filter = "f2"

\* the first response is requested unconditionally; afterwards the number of
\* requests grows only when the last response carried a non-empty token
QueriesOnlyOnToken ==
    Len(requests') > Len(requests) /\ Len(requests) >= 1
      => /\ served[Len(served)].kind = "page"
         /\ truthy(served[Len(served)].continuation_token)

\* a step from the loop test goes to the next query exactly when the token is
\* non-empty, and otherwise returns the accumulator at once
LoopTestDecides ==
    pc = "loop" /\ pc' # "loop" =>
        IF truthy(response.continuation_token)
        THEN pc' = "query" /\ batched_result'.kind = "pending"
        ELSE /\ pc' = "normalize"
             /\ batched_result'.kind = "returned"
             /\ batched_result'.value = all_steps

\* the paginator has returned only after a response with no (or an empty) token,
\* the first such response
ReturnedOnlyWhenComplete ==
    batched_result.kind = "returned" => CompletePages(served)

\* C4: another query is issued iff the last response carried a non-empty token;
\* the accumulator is returned right after the first response without one, so
\* the paginator terminates once the server sends such a response, and has not
\* returned while every response carried a non-empty token.
C4_Termination ==
    /\ []ReturnedOnlyWhenComplete
    /\ [][QueriesOnlyOnToken /\ LoopTestDecides]_vars
    /\ (pc = "loop" /\ ~truthy(response.continuation_token))
          ~> (batched_result.kind = "returned"
              /\ batched_result.value = ConcatOfPages(served))

C4_Witness ==
    /\ pc = "normalize"
    /\ Len(served) = 3
    /\ served[3].continuation_token = PyStr(<<>>)
    /\ batched_result.kind = "returned"

\* C5: when a query_steps call fails, that call is the last one made, both
\* functions end raising that failure, and nothing is returned.
C5_FailurePropagates ==
    \A k \in DOMAIN served :
        served[k].kind = "error" =>
            /\ k = Len(served)
            /\ Len(requests) = k
            /\ pc = "raised"
            /\ batched_result.kind = "raised"
            /\ batched_result.error = served[k].error
            /\ batched_result.value = <<>>
            /\ dataframe_result.kind = "raised"
            /\ dataframe_result.error = served[k].error
            /\ dataframe_result.value = EmptyFrame

C5_Witness ==
    /\ pc = "raised"
    /\ Len(served) = 3
    /\ all_steps # <<>>
    /\ batched_result.kind = "raised"
    /\ batched_result.error = "ConnectionError"

-----------------------------------------------------------------------------
(* Properties of __group_columns *)

Range(seq) == {seq[i] : i \in DOMAIN seq}
Distinct(seq) == \A i, j \in DOMAIN seq : seq[i] = seq[j] => i = j
Position(seq, x) == CHOOSE i \in DOMAIN seq : seq[i] = x

\* Python: s.startswith(prefix)
startswith(s, prefix) ==
    Len(prefix) <= Len(s) /\ SubSeq(s, 1, Len(prefix)) = prefix

\* the group of a column by its path prefix
PrefixGroup(column) ==
    IF startswith(column, input_key \o sep) THEN StepProjection_INPUTS
    ELSE IF startswith(column, output_key \o sep) THEN StepProjection_OUTPUTS
    ELSE IF startswith(column, s_data \o sep) THEN StepProjection_DATA
    ELSE IF startswith(column, s_properties \o sep) THEN StepProjection_PROPERTIES
    ELSE s_general

OfPrefixGroup(columns, group) ==
    SelectSeq(columns, LAMBDA column : PrefixGroup(column) = group)

\* C6: the result is the general columns, then the inputs.* columns, then the
\* outputs.*, the data.* and the properties.* columns, a column belonging to the
\* group its path starts with (data_model and every other column being general).
C6_PrefixGroupOrder ==
    g_pc = "done" =>
        g_result = OfPrefixGroup(g_columns, s_general)
                   \o OfPrefixGroup(g_columns, StepProjection_INPUTS)
                   \o OfPrefixGroup(g_columns, StepProjection_OUTPUTS)
                   \o OfPrefixGroup(g_columns, StepProjection_DATA)
                   \o OfPrefixGroup(g_columns, StepProjection_PROPERTIES)

\* the groups as the finished loop left them
SameGroup(c, d) ==
    \E k \in GroupKeys : c \in Range(g_grouped[k]) /\ d \in Range(g_grouped[k])

\* C10: for distinct columns, every column the loop has handled is in exactly
\* one group; the result holds exactly the input columns, each once; two
\* columns of one group keep their input order.
C10_StablePartition ==
    Distinct(g_columns) =>
        /\ \A i \in 1..g_index :
             Cardinality({k \in GroupKeys : g_columns[i] \in Range(g_grouped[k])}) = 1
        /\ g_pc = "done" =>
             /\ Len(g_result) = Len(g_columns)
             /\ Range(g_result) = Range(g_columns)
             /\ Distinct(g_result)
             /\ \A i, j \in DOMAIN g_columns :
                  i < j /\ SameGroup(g_columns[i], g_columns[j])
                    => Position(g_result, g_columns[i]) < Position(g_result, g_columns[j])

C10_Witness ==
    /\ g_pc = "done"
    /\ g_columns = <<c_inputs_data, c_id, c_data_temp>>
    /\ g_result = <<c_id, c_inputs_data, c_data_temp>>

-----------------------------------------------------------------------------
(* Properties of __restructure_steps and __normalize_steps *)

Names(io_list) == {dict_get(io_list[i].v, s_name).v : i \in DOMAIN io_list}

\* the value of the last pair of io_list called `name`
LastValue(io_list, name) ==
    LET last == CHOOSE i \in DOMAIN io_list :
                    /\ dict_get(io_list[i].v, s_name).v = name
                    /\ \A j \in DOMAIN io_list :
                         dict_get(io_list[j].v, s_name).v = name => j <= i
    IN  dict_get(io_list[last].v, s_value)

NonEmptyPairList(key, val) ==
    key \in {input_key, output_key} /\ val.t = "list" /\ val.v # <<>>

StepRestructured(old_step, new_step) ==
    /\ dict_keys(new_step) = dict_keys(old_step)
    /\ \A n \in DOMAIN old_step :
         LET key == old_step[n][1]
             old == old_step[n][2]
             new == new_step[n][2]
         IN  IF NonEmptyPairList(key, old)
             THEN /\ new.t = "dict"
                  /\ Len(new.v) = Cardinality(Names(old.v))
                  /\ {new.v[m][1] : m \in DOMAIN new.v} = Names(old.v)
                  /\ \A m \in DOMAIN new.v :
                       new.v[m][2] = LastValue(old.v, new.v[m][1])
             ELSE new.t = old.t /\ new.v = old.v

\* C7: __restructure_steps turns each non-empty inputs/outputs list into the
\* mapping name -> value of the last pair of that name, and changes nothing else.
C7_Restructure ==
    [][n_pc = "restructure" =>
         /\ Len(n_dicts') = Len(n_dicts)
         /\ \A i \in DOMAIN n_dicts : StepRestructured(n_dicts[i], n_dicts'[i])]_vars

C7_Witness ==
    /\ n_pc = "json_normalize"
    /\ Len(n_steps) = 2
    /\ n_steps[1][2][2] =
         PyList(<<NamedValue(<<"v">>, PyStr(<<"5">>)), NamedValue(<<"v">>, PyStr(<<"7">>))>>)
    /\ dict_get(n_dicts[1], input_key) = PyDict(<< <<(<<"v">>), PyStr(<<"7">>)>> >>)
    /\ n_steps[2][2][2] = PyList(<<>>)
    /\ dict_get(n_dicts[2], input_key) = PyList(<<>>)

\* the fields of a Step that the server set
SetFields(step) == {n \in DOMAIN step : step[n][2].t # "unset"}

\* the leaf field paths of a record: a scalar field by its name, an entry of a
\* mapping (or of a non-empty inputs/outputs list) by field "." key
LeafPaths(step) ==
    {step[n][1] : n \in {m \in SetFields(step) :
                            /\ step[m][2].t # "dict"
                            /\ ~NonEmptyPairList(step[m][1], step[m][2])}}
    \cup UNION {{step[n][1] \o sep \o step[n][2].v[m][1] : m \in DOMAIN step[n][2].v} :
                   n \in {m \in SetFields(step) : step[m][2].t = "dict"}}
    \cup UNION {{step[n][1] \o sep \o name : name \in Names(step[n][2].v)} :
                   n \in {m \in SetFields(step) :
                            NonEmptyPairList(step[m][1], step[m][2])}}

\* the value of the leaf field `path` of a record that has it
LeafValue(step, path) ==
    LET n == CHOOSE m \in SetFields(step) :
                 path = step[m][1] \/ startswith(path, step[m][1] \o sep)
        val == step[n][2]
        rest == SubSeq(path, Len(step[n][1]) + 2, Len(path))
    IN  IF path = step[n][1] THEN val
        ELSE IF val.t = "dict" THEN dict_get(val.v, rest)
        ELSE LastValue(val.v, rest)

NonNull(val) == val.t \notin {"none", "nan"}

\* C8: the returned table has no column that is null in every row, it has
\* every leaf field that is non-null in some record, and it is 0 x 0 for no
\* records.
C8_NoEmptyColumn ==
    n_pc = "done" =>
        /\ \A j \in DOMAIN n_frame.columns :
             \E i \in DOMAIN n_frame.data : NonNull(n_frame.data[i][j])
        /\ Range(n_frame.columns) =
             {path \in UNION {LeafPaths(n_steps[i]) : i \in DOMAIN n_steps} :
                 \E i \in DOMAIN n_steps :
                     /\ path \in LeafPaths(n_steps[i])
                     /\ NonNull(LeafValue(n_steps[i], path))}
        /\ Distinct(n_frame.columns)
        /\ n_steps = <<>> => n_frame.columns = <<>> /\ n_frame.data = <<>>

\* a leaf that is null in one record and missing in the other, and so dropped
C8_Witness ==
    /\ n_pc = "done"
    /\ Len(n_steps) = 2
    /\ input_key \o sep \o <<"v">> \in LeafPaths(n_steps[1])
    /\ input_key \o sep \o <<"w">> \in Range(n_frame.columns)
    /\ input_key \o sep \o <<"v">> \notin Range(n_frame.columns)
    /\ s_data \in LeafPaths(n_steps[2])
    /\ s_data \notin Range(n_frame.columns)

\* C9: the returned table has one row per record, in record order: row i holds
\* record i's value of each column, and NaN where record i lacks the leaf.
C9_RowPerRecord ==
    n_pc = "done" =>
        /\ Len(n_frame.data) = Len(n_steps)
        /\ \A i \in DOMAIN n_frame.data :
             /\ Len(n_frame.data[i]) = Len(n_frame.columns)
             /\ \A j \in DOMAIN n_frame.columns :
                  IF n_frame.columns[j] \in LeafPaths(n_steps[i])
                  THEN LET val == LeafValue(n_steps[i], n_frame.columns[j])
                       IN  n_frame.data[i][j].t = val.t /\ n_frame.data[i][j].v = val.v
                  ELSE n_frame.data[i][j] = NaN

\* two records with different fields: each row has a NaN the other has not
C9_Witness ==
    /\ n_pc = "done"
    /\ Len(n_steps) = 2
    /\ Len(n_frame.data) = 2
    /\ \E j, k \in DOMAIN n_frame.columns :
         /\ n_frame.data[1][j] = NaN /\ NonNull(n_frame.data[2][j])
         /\ n_frame.data[2][k] = NaN /\ NonNull(n_frame.data[1][k])

====
